---- MODULE Spec2Model ----
(***************************************************************************)
(* Node API of an AVS node (nodeapi/src/main.rs): the NodeApi state, its   *)
(* three query handlers, and the owner-side mutations of the health value  *)
(* and of the service registry that the specification describes.           *)
(***************************************************************************)
EXTENDS Integers, Sequences, FiniteSets, TLC

\* ------------------------------------------------------------------ bounds
NumTasks == 2
MaxServices == 2

\* --------------------------------------------------------------- constants
\* axum::http::StatusCode values returned by the handlers
OK == 200
PARTIAL_CONTENT == 206
SERVICE_UNAVAILABLE == 503
NOT_FOUND == 404

\* enum NodeHealth
NodeHealth == {"Healthy", "PartiallyHealthy", "Unhealthy"}

\* enum ServiceStatus
ServiceStatus == {"Up", "Down", "Initializing"}

\* ids a registry record may carry, and ids a request path may carry: the
\* latter add the empty string and an id that differs from a stored one only
\* in letter case
StoredIds == {"svc1", "svc2"}
PathIds == StoredIds \cup {"", "Svc1"}

\* struct NodeService (name and description are carried, never inspected)
NodeService == [id : StoredIds, name : {"service"}, description : {"a service"},
                status : ServiceStatus]

Tasks == 1..NumTasks

\* ---------------------------------------------------------- pure functions
\* String::eq on two ids: byte-for-byte equality
IdEqIgnoreCase(a, b) ==
    LET lower(s) == IF s = "Svc1" THEN "svc1" ELSE s IN lower(a) = lower(b)

IdEq(a, b) == a = b

\* match *health { ... } of health_handler
HealthCodeUnhealthyOk(h) ==
    CASE h = "Healthy" -> OK
      [] h = "PartiallyHealthy" -> PARTIAL_CONTENT
      [] h = "Unhealthy" -> OK

HealthCode(h) ==
    CASE h = "Healthy" -> OK
      [] h = "PartiallyHealthy" -> PARTIAL_CONTENT
      [] h = "Unhealthy" -> SERVICE_UNAVAILABLE

\* match s.status { ... } of service_health_handler
StatusCodeSwapped(s) ==
    CASE s = "Up" -> OK
      [] s = "Down" -> PARTIAL_CONTENT
      [] s = "Initializing" -> SERVICE_UNAVAILABLE

StatusCode(s) ==
    CASE s = "Up" -> OK
      [] s = "Down" -> SERVICE_UNAVAILABLE
      [] s = "Initializing" -> PARTIAL_CONTENT

\* services.iter().find(|s| s.id == service_id): the index of the first
\* record whose id equals service_id, 0 for None
RECURSIVE FindFrom(_, _, _)
FindFrom(services, service_id, i) ==
    IF i > Len(services) THEN 0
    ELSE IF IdEq(services[i].id, service_id) THEN i
    ELSE FindFrom(services, service_id, i + 1)

FindLast(services, service_id) ==
    LET hits == {i \in 1..Len(services) : IdEq(services[i].id, service_id)} IN
    IF hits = {} THEN 0 ELSE CHOOSE i \in hits : \A j \in hits : j <= i

Find(services, service_id) == FindFrom(services, service_id, 1)

\* match service { Some(s) => ..., None => NOT_FOUND }
ServiceCode(services, service_id) ==
    LET i == Find(services, service_id) IN
    IF i = 0 THEN NOT_FOUND ELSE StatusCode(services[i].status)

\* json!({ "node_name": ..., "spec_version": "v0.0.1", "node_version": ... })
NodeJsonNameFromVersion(name, sem_ver) ==
    [node_name |-> sem_ver, spec_version |-> "v0.0.1", node_version |-> sem_ver]

NodeJson(name, sem_ver) ==
    [node_name |-> name, spec_version |-> "v0.0.1", node_version |-> sem_ver]

\* owner-side registry mutations: upsert replaces the record with the same id
\* in place, or appends; remove drops the record with that id
UpsertAppends(services, rec) == Append(services, rec)

Upsert(services, rec) ==
    IF \E i \in 1..Len(services) : services[i].id = rec.id
    THEN [i \in 1..Len(services) |->
             IF services[i].id = rec.id THEN rec ELSE services[i]]
    ELSE Append(services, rec)

Remove(services, id) == SelectSeq(services, LAMBDA r : r.id # id)

\* ------------------------------------------------------------------- state
VARIABLES
    avs_node_name,      \* NodeApi.avs_node_name
    avs_node_sem_ver,   \* NodeApi.avs_node_sem_ver
    health,             \* the value inside NodeApi.health
    node_services,      \* the Vec inside NodeApi.node_services
    health_holder,      \* task holding the health mutex, 0 when free
    health_poisoned,    \* poison flag of the health mutex
    services_holder,    \* task holding the node_services mutex, 0 when free
    services_poisoned,  \* poison flag of the node_services mutex
    pc,                 \* where each task is
    service_id,         \* Path(service_id) of the request a task serves
    response,           \* StatusCode a task computed, 0 for none yet
    body,               \* Json body a task computed, as a set of at most one
    last_set,           \* history: the value of the latest set_health write
    written,            \* history: the initial health and every value written
    registry_touched,   \* history: a registry mutation has been applied
    since               \* history: per reading task, the values its field
                        \* has held since the request arrived

vars == <<avs_node_name, avs_node_sem_ver, health, node_services,
          health_holder, health_poisoned, services_holder, services_poisoned,
          pc, service_id, response, body, last_set, written, registry_touched,
          since>>

identity == <<avs_node_name, avs_node_sem_ver>>
store == <<health, node_services>>
health_mutex == <<health_holder, health_poisoned>>
services_mutex == <<services_holder, services_poisoned>>
locals == <<service_id, response, body>>
history == <<last_set, written, registry_touched, since>>

\* Mutex::new(NodeHealth::Healthy) in main
InitialHealthUnhealthy == "Unhealthy"

InitialHealth == "Healthy"

\* the value the handlers reach through the shared Arc<Mutex<..>>
HealthCellCloned == InitialHealth

HealthCell == health

ServicesCellCloned == <<>>

ServicesCell == node_services

\* Mutex::lock returns only while no other guard is alive
LockFreeAlways(holder) == TRUE

LockFree(holder) == holder = 0

\* lock() is Ok on a sound mutex and Err(PoisonError) on a poisoned one;
\* unwrap() returns the guard of an Ok and panics on an Err
UnwrapIgnoresPoison(poisoned) == TRUE

UnwrapOk(poisoned) == ~poisoned

\* what health_handler answers in the current state
health_response_from_services ==
    IF \E i \in 1..Len(ServicesCell) : ServicesCell[i].status = "Down"
    THEN SERVICE_UNAVAILABLE
    ELSE HealthCode(HealthCell)

health_response == HealthCode(HealthCell)

\* what service_health_handler answers for this id in the current state
service_health_response(id) == ServiceCode(ServicesCell, id)

\* "Absent" or the status of the record with this id
StatusOf(services, id) ==
    IF \E i \in 1..Len(services) : services[i].id = id
    THEN services[CHOOSE i \in 1..Len(services) : services[i].id = id].status
    ELSE "Absent"

\* main: NodeApi { "NodeName", "v0.0.1", Healthy, vec![] }
Init ==
    /\ avs_node_name = "NodeName"
    /\ avs_node_sem_ver = "v0.0.1"
    /\ health = InitialHealth
    /\ node_services = <<>>
    /\ health_holder = 0
    /\ health_poisoned = FALSE
    /\ services_holder = 0
    /\ services_poisoned = FALSE
    /\ pc = [t \in Tasks |-> "idle"]
    /\ service_id = [t \in Tasks |-> ""]
    /\ response = [t \in Tasks |-> 0]
    /\ body = [t \in Tasks |-> {}]
    /\ last_set = "None"
    /\ written = {InitialHealth}
    /\ registry_touched = FALSE
    /\ since = [t \in Tasks |-> {}]

\* ---------------------------------------------------------- query handlers
\* GET /node
node_handler(t) ==
    /\ pc[t] = "idle"
    /\ pc' = [pc EXCEPT ![t] = "responded"]
    /\ body' = [body EXCEPT ![t] = {NodeJson(avs_node_name, avs_node_sem_ver)}]
    /\ response' = [response EXCEPT ![t] = OK]
    /\ UNCHANGED <<identity, store, health_mutex, services_mutex, service_id, history>>

\* GET /node/health arrives
health_request(t) ==
    /\ pc[t] = "idle"
    /\ pc' = [pc EXCEPT ![t] = "h_lock"]
    /\ since' = [since EXCEPT ![t] = {health}]
    /\ UNCHANGED <<identity, store, health_mutex, services_mutex, locals, last_set, written,
                   registry_touched>>

\* api.health.lock().unwrap() on a sound mutex
health_lock_takes_both(t) ==
    /\ pc[t] = "h_lock"
    /\ LockFree(health_holder)
    /\ LockFree(services_holder)
    /\ UnwrapOk(health_poisoned)
    /\ health_holder' = t
    /\ services_holder' = t
    /\ pc' = [pc EXCEPT ![t] = "h_match"]
    /\ UNCHANGED <<identity, store, health_poisoned, services_poisoned, locals, history>>

health_lock(t) ==
    /\ pc[t] = "h_lock"
    /\ LockFree(health_holder)
    /\ UnwrapOk(health_poisoned)
    /\ health_holder' = t
    /\ pc' = [pc EXCEPT ![t] = "h_match"]
    /\ UNCHANGED <<identity, store, health_poisoned, services_mutex, locals, history>>

\* api.health.lock().unwrap() on a poisoned mutex: unwrap panics, the guard
\* inside the error is dropped
health_lock_poisoned(t) ==
    /\ pc[t] = "h_lock"
    /\ LockFree(health_holder)
    /\ ~UnwrapOk(health_poisoned)
    /\ pc' = [pc EXCEPT ![t] = "h_fault"]
    /\ UNCHANGED <<identity, store, health_mutex, services_mutex, locals, history>>

\* match *health
health_match(t) ==
    /\ pc[t] = "h_match"
    /\ response' = [response EXCEPT ![t] = health_response]
    /\ pc' = [pc EXCEPT ![t] = "h_drop"]
    /\ UNCHANGED <<identity, store, health_mutex, services_mutex, service_id, body, history>>

\* end of health_handler: the guard is dropped, the status is returned
health_return_keeps_guard(t) ==
    /\ pc[t] = "h_drop"
    /\ pc' = [pc EXCEPT ![t] = "responded"]
    /\ since' = [since EXCEPT ![t] = {}]
    /\ UNCHANGED <<identity, store, health_mutex, services_mutex, locals, last_set, written,
                   registry_touched>>

health_return(t) ==
    /\ pc[t] = "h_drop"
    /\ health_holder' = IF health_holder = t THEN 0 ELSE health_holder
    /\ pc' = [pc EXCEPT ![t] = "responded"]
    /\ since' = [since EXCEPT ![t] = {}]
    /\ UNCHANGED <<identity, store, health_poisoned, services_mutex, locals, last_set, written,
                   registry_touched>>

\* GET /node/services/:service_id/health arrives
service_health_request(t, id) ==
    /\ pc[t] = "idle"
    /\ pc' = [pc EXCEPT ![t] = "s_lock"]
    /\ service_id' = [service_id EXCEPT ![t] = id]
    /\ since' = [since EXCEPT ![t] = {StatusOf(node_services, id)}]
    /\ UNCHANGED <<identity, store, health_mutex, services_mutex, response, body, last_set, written,
                   registry_touched>>

\* api.node_services.lock().unwrap() on a sound mutex
services_lock(t) ==
    /\ pc[t] = "s_lock"
    /\ LockFree(services_holder)
    /\ UnwrapOk(services_poisoned)
    /\ services_holder' = t
    /\ pc' = [pc EXCEPT ![t] = "s_match"]
    /\ UNCHANGED <<identity, store, health_mutex, services_poisoned, locals, history>>

\* api.node_services.lock().unwrap() on a poisoned mutex
services_lock_poisoned(t) ==
    /\ pc[t] = "s_lock"
    /\ LockFree(services_holder)
    /\ ~UnwrapOk(services_poisoned)
    /\ pc' = [pc EXCEPT ![t] = "s_fault"]
    /\ UNCHANGED <<identity, store, health_mutex, services_mutex, locals, history>>

\* find the service and match on it
service_health_match_reorders(t) ==
    /\ pc[t] = "s_match"
    /\ response' = [response EXCEPT ![t] = service_health_response(service_id[t])]
    /\ pc' = [pc EXCEPT ![t] = "s_drop"]
    /\ node_services' = [i \in 1..Len(node_services) |->
                            node_services[Len(node_services) + 1 - i]]
    /\ UNCHANGED <<identity, health, health_mutex, services_mutex, service_id, body, history>>

service_health_match(t) ==
    /\ pc[t] = "s_match"
    /\ response' = [response EXCEPT ![t] = service_health_response(service_id[t])]
    /\ pc' = [pc EXCEPT ![t] = "s_drop"]
    /\ UNCHANGED <<identity, store, health_mutex, services_mutex, service_id, body, history>>

\* end of service_health_handler: the guard is dropped, the status is returned
service_health_return(t) ==
    /\ pc[t] = "s_drop"
    /\ services_holder' = IF services_holder = t THEN 0 ELSE services_holder
    /\ pc' = [pc EXCEPT ![t] = "responded"]
    /\ since' = [since EXCEPT ![t] = {}]
    /\ UNCHANGED <<identity, store, health_mutex, services_poisoned, locals, last_set, written,
                   registry_touched>>

\* the response is sent (or the panicked task is reaped); the task is free
\* to serve the next request
task_end(t) ==
    /\ pc[t] \in {"responded", "h_fault", "s_fault", "panicked"}
    /\ pc' = [pc EXCEPT ![t] = "idle"]
    /\ service_id' = [service_id EXCEPT ![t] = ""]
    /\ response' = [response EXCEPT ![t] = 0]
    /\ body' = [body EXCEPT ![t] = {}]
    /\ UNCHANGED <<identity, store, health_mutex, services_mutex, history>>

\* ------------------------------------------------- mutations by the owner
ReadingHealth(t) == pc[t] \in {"h_lock", "h_match", "h_drop"}
ReadingService(t, id) == pc[t] \in {"s_lock", "s_match", "s_drop"} /\ service_id[t] = id

\* set_health(level): take the health mutex
set_health_lock(t) ==
    /\ pc[t] = "idle"
    /\ LockFree(health_holder)
    /\ ~health_poisoned
    /\ health_holder' = t
    /\ pc' = [pc EXCEPT ![t] = "sh_locked"]
    /\ UNCHANGED <<identity, store, health_poisoned, services_mutex, locals, history>>

\* set_health(level): replace the aggregate health
set_health_write(t, level) ==
    /\ pc[t] = "sh_locked"
    /\ health' = level
    /\ pc' = [pc EXCEPT ![t] = "sh_written"]
    /\ last_set' = level
    /\ written' = written \cup {level}
    /\ since' = [q \in Tasks |->
                   IF ReadingHealth(q) THEN since[q] \cup {level} ELSE since[q]]
    /\ UNCHANGED <<identity, node_services, health_mutex, services_mutex, locals,
                   registry_touched>>

\* set_health(level): the guard is dropped, the call returns
set_health_unlock(t) ==
    /\ pc[t] = "sh_written"
    /\ health_holder' = IF health_holder = t THEN 0 ELSE health_holder
    /\ pc' = [pc EXCEPT ![t] = "idle"]
    /\ UNCHANGED <<identity, store, health_poisoned, services_mutex, locals, history>>

\* upsert_service / remove_service: take the node_services mutex
registry_lock(t) ==
    /\ pc[t] = "idle"
    /\ LockFree(services_holder)
    /\ ~services_poisoned
    /\ services_holder' = t
    /\ pc' = [pc EXCEPT ![t] = "rg_locked"]
    /\ UNCHANGED <<identity, store, health_mutex, services_poisoned, locals, history>>

\* upsert_service(record)
upsert_service(t, rec) ==
    /\ pc[t] = "rg_locked"
    /\ Len(Upsert(node_services, rec)) <= MaxServices
    /\ node_services' = Upsert(node_services, rec)
    /\ pc' = [pc EXCEPT ![t] = "rg_written"]
    /\ since' = [q \in Tasks |->
                   IF ReadingService(q, rec.id) THEN since[q] \cup {rec.status}
                   ELSE since[q]]
    /\ registry_touched' = TRUE
    /\ UNCHANGED <<identity, health, health_mutex, services_mutex, locals, last_set, written>>

\* remove_service(id)
remove_service(t, id) ==
    /\ pc[t] = "rg_locked"
    /\ node_services' = Remove(node_services, id)
    /\ pc' = [pc EXCEPT ![t] = "rg_written"]
    /\ since' = [q \in Tasks |->
                   IF ReadingService(q, id) THEN since[q] \cup {"Absent"}
                   ELSE since[q]]
    /\ registry_touched' = TRUE
    /\ UNCHANGED <<identity, health, health_mutex, services_mutex, locals, last_set, written>>

\* upsert_service / remove_service: the guard is dropped, the call returns
registry_unlock(t) ==
    /\ pc[t] = "rg_written"
    /\ services_holder' = IF services_holder = t THEN 0 ELSE services_holder
    /\ pc' = [pc EXCEPT ![t] = "idle"]
    /\ UNCHANGED <<identity, store, health_mutex, services_poisoned, locals, history>>

\* a writer panics while it holds the health guard: unwinding drops the
\* guard, which poisons the mutex
health_holder_panic(t) ==
    /\ pc[t] \in {"sh_locked", "sh_written"}
    /\ health_holder' = IF health_holder = t THEN 0 ELSE health_holder
    /\ health_poisoned' = TRUE
    /\ pc' = [pc EXCEPT ![t] = "panicked"]
    /\ UNCHANGED <<identity, store, services_mutex, locals, history>>

\* a writer panics while it holds the node_services guard
services_holder_panic(t) ==
    /\ pc[t] \in {"rg_locked", "rg_written"}
    /\ services_holder' = IF services_holder = t THEN 0 ELSE services_holder
    /\ services_poisoned' = TRUE
    /\ pc' = [pc EXCEPT ![t] = "panicked"]
    /\ UNCHANGED <<identity, store, health_mutex, locals, history>>

\* ----------------------------------------------------------- specification
Next ==
    \E t \in Tasks :
        \/ node_handler(t)
        \/ health_request(t)
        \/ health_lock(t)
        \/ health_lock_poisoned(t)
        \/ health_match(t)
        \/ health_return(t)
        \/ \E id \in PathIds : service_health_request(t, id)
        \/ services_lock(t)
        \/ services_lock_poisoned(t)
        \/ service_health_match(t)
        \/ service_health_return(t)
        \/ task_end(t)
        \/ set_health_lock(t)
        \/ \E level \in NodeHealth : set_health_write(t, level)
        \/ set_health_unlock(t)
        \/ registry_lock(t)
        \/ \E rec \in NodeService : upsert_service(t, rec)
        \/ \E id \in StoredIds : remove_service(t, id)
        \/ registry_unlock(t)
        \/ health_holder_panic(t)
        \/ services_holder_panic(t)

Spec == Init /\ [][Next]_vars

\* the program as main wires it: the Router has the three GET routes and
\* nothing else reaches the NodeApi
NextMainWithSetHealth ==
    \E t \in Tasks :
        \/ node_handler(t)
        \/ health_request(t)
        \/ health_lock(t)
        \/ health_match(t)
        \/ health_return(t)
        \/ \E id \in PathIds : service_health_request(t, id)
        \/ services_lock(t)
        \/ service_health_match(t)
        \/ service_health_return(t)
        \/ task_end(t)
        \/ set_health_lock(t)
        \/ \E level \in NodeHealth : set_health_write(t, level)
        \/ set_health_unlock(t)

NextMain ==
    \E t \in Tasks :
        \/ node_handler(t)
        \/ health_request(t)
        \/ health_lock(t)
        \/ health_match(t)
        \/ health_return(t)
        \/ \E id \in PathIds : service_health_request(t, id)
        \/ services_lock(t)
        \/ service_health_match(t)
        \/ service_health_return(t)
        \/ task_end(t)

SpecMain == Init /\ [][NextMain]_vars

\* executions in which no lock holder panics, under a scheduler that runs
\* every task that can step and hands a mutex that keeps becoming free to
\* every task that keeps asking for it. Progress does not depend on the data
\* moved, so these executions query one stored id and the writers write one
\* health level and one record
ContendedIds == {"svc1"}
ContendedLevels == {"Unhealthy"}
ContendedRecords == {r \in NodeService : r.id = "svc1" /\ r.status = "Down"}

NextNoPanic ==
    \E t \in Tasks :
        \/ node_handler(t)
        \/ health_request(t)
        \/ health_lock(t)
        \/ health_match(t)
        \/ health_return(t)
        \/ \E id \in ContendedIds : service_health_request(t, id)
        \/ services_lock(t)
        \/ service_health_match(t)
        \/ service_health_return(t)
        \/ task_end(t)
        \/ set_health_lock(t)
        \/ \E level \in ContendedLevels : set_health_write(t, level)
        \/ set_health_unlock(t)
        \/ registry_lock(t)
        \/ \E rec \in ContendedRecords : upsert_service(t, rec)
        \/ \E id \in ContendedIds \cap StoredIds : remove_service(t, id)
        \/ registry_unlock(t)

\* the steps of a call that is under way, once it has its guard or needs none
Proceed(t) ==
    \/ health_match(t)
    \/ health_return(t)
    \/ service_health_match(t)
    \/ service_health_return(t)
    \/ task_end(t)
    \/ \E level \in NodeHealth : set_health_write(t, level)
    \/ set_health_unlock(t)
    \/ \E rec \in NodeService : upsert_service(t, rec)
    \/ \E id \in StoredIds : remove_service(t, id)
    \/ registry_unlock(t)

Fairness ==
    \A t \in Tasks :
        /\ WF_vars(Proceed(t))
        /\ SF_vars(health_lock(t))
        /\ SF_vars(services_lock(t))

SpecFair == Init /\ [][NextNoPanic]_vars /\ Fairness

\* the per-service query over any Vec<NodeService>, ids repeated or not
Registries == UNION {[1..n -> NodeService] : n \in 0..MaxServices}

InitAnyRegistry ==
    /\ avs_node_name = "NodeName"
    /\ avs_node_sem_ver = "v0.0.1"
    /\ health = InitialHealth
    /\ node_services \in Registries
    /\ health_holder = 0
    /\ health_poisoned = FALSE
    /\ services_holder = 0
    /\ services_poisoned = FALSE
    /\ pc = [t \in Tasks |-> "idle"]
    /\ service_id = [t \in Tasks |-> ""]
    /\ response = [t \in Tasks |-> 0]
    /\ body = [t \in Tasks |-> {}]
    /\ last_set = "None"
    /\ written = {InitialHealth}
    /\ registry_touched = (node_services # <<>>)
    /\ since = [t \in Tasks |-> {}]

NextServiceQuery ==
    \E t \in Tasks :
        \/ \E id \in PathIds : service_health_request(t, id)
        \/ services_lock(t)
        \/ service_health_match(t)
        \/ service_health_return(t)
        \/ task_end(t)

SpecAnyRegistry == InitAnyRegistry /\ [][NextServiceQuery]_vars

\* ------------------------------------------------------------------ claims
\* the response table of the aggregate health query
HealthSignal(h) ==
    IF h = "Healthy" THEN 200 ELSE IF h = "PartiallyHealthy" THEN 206 ELSE 503

\* the response table of the per-service query, "Absent" for no record
StatusSignal(s) ==
    IF s = "Up" THEN 200 ELSE IF s = "Down" THEN 503
    ELSE IF s = "Initializing" THEN 206 ELSE 404

Records == {node_services[i] : i \in DOMAIN node_services}

\* C1: the status the aggregate health query computes is exactly the image
\* of the health value held while it reads the store (Healthy 200,
\* PartiallyHealthy 206, Unhealthy 503) and never any other status.
C1_HealthQueryIsImageOfHealth ==
    \A t \in Tasks :
        pc[t] = "h_drop" =>
            /\ health = "Healthy" => response[t] = 200
            /\ health = "PartiallyHealthy" => response[t] = 206
            /\ health = "Unhealthy" => response[t] = 503
            /\ response[t] \in {200, 206, 503}

C1_Witness ==
    \E t \in Tasks : pc[t] = "h_drop" /\ health = "Unhealthy" /\ response[t] = 503

\* C2: for every registry content and every identifier (the empty string and
\* an id differing only in letter case included) the per-service query
\* computes 200 if a record with exactly that id is Up, 503 if Down, 206 if
\* Initializing, and 404 if no record has exactly that id.
C2_ServiceQueryByExactId ==
    \A t \in Tasks :
        pc[t] = "s_drop" =>
            /\ (\E r \in Records : r.id = service_id[t] /\ r.status = "Up")
                   => response[t] = 200
            /\ (\E r \in Records : r.id = service_id[t] /\ r.status = "Down")
                   => response[t] = 503
            /\ (\E r \in Records : r.id = service_id[t] /\ r.status = "Initializing")
                   => response[t] = 206
            /\ (\A r \in Records : r.id # service_id[t]) => response[t] = 404

C2_Witness ==
    \E t \in Tasks :
        /\ pc[t] = "s_drop"
        /\ service_id[t] = "Svc1"
        /\ response[t] = 404
        /\ \E r \in Records : r.id = "svc1" /\ r.status = "Up"
        /\ \E r \in Records : r.id = "svc2" /\ r.status = "Down"

\* C3: after set_health(v), a health query that reads with no intervening
\* write computes the status of exactly v.
C3_WriteThenRead ==
    \A t \in Tasks :
        (pc[t] = "h_drop" /\ last_set # "None") => response[t] = HealthSignal(last_set)

C3_Witness ==
    \E t \in Tasks :
        /\ pc[t] = "h_drop"
        /\ last_set = "PartiallyHealthy"
        /\ written = NodeHealth
        /\ response[t] = 206

\* C4: under every interleaving of writers and readers, a read observes a
\* value of the enumeration that is the initial value or one some writer
\* wrote, and no reader holds the store while a writer is inside a write.
HealthWriters == {t \in Tasks : pc[t] \in {"sh_locked", "sh_written"}}
HealthReaders == {t \in Tasks : pc[t] \in {"h_match", "h_drop"}}
RegistryWriters == {t \in Tasks : pc[t] \in {"rg_locked", "rg_written"}}
RegistryReaders == {t \in Tasks : pc[t] \in {"s_match", "s_drop"}}

C4_ReadsSeeWrittenValues ==
    /\ written \subseteq NodeHealth
    /\ health \in written
    /\ \A t \in Tasks :
           pc[t] = "h_drop" => response[t] \in {HealthSignal(v) : v \in written}
    /\ HealthReaders # {} => HealthWriters = {}
    /\ RegistryReaders # {} => RegistryWriters = {}
    /\ \A i \in DOMAIN node_services : node_services[i] \in NodeService

C4_Witness ==
    \E t, u \in Tasks :
        /\ pc[t] = "h_drop"
        /\ response[t] = 503
        /\ Cardinality(since[t]) >= 2
        /\ pc[u] = "rg_written"

\* C5: a read that starts after a write to its field completed computes the
\* status of that write or of a later one, never of an earlier value.
C5_ReadsAreNotStale ==
    \A t \in Tasks :
        /\ pc[t] = "h_drop" => response[t] \in {HealthSignal(v) : v \in since[t]}
        /\ pc[t] = "s_drop" => response[t] \in {StatusSignal(v) : v \in since[t]}

C5_Witness ==
    \E t, u \in Tasks :
        /\ pc[t] = "s_drop"
        /\ service_id[t] = "svc1"
        /\ since[t] = {"Up", "Down"}
        /\ response[t] = 503
        /\ pc[u] = "idle"
        /\ last_set = "Unhealthy"

\* C6: the identity query answers {node_name, spec_version "v0.0.1",
\* node_version} with the name and version given at construction, in every
\* reachable state, whatever health and registry mutations have happened.
C6_IdentityNeverChanges ==
    /\ avs_node_name = "NodeName"
    /\ avs_node_sem_ver = "v0.0.1"
    /\ \A t \in Tasks :
           body[t] \subseteq {[node_name |-> "NodeName", spec_version |-> "v0.0.1",
                               node_version |-> "v0.0.1"]}

C6_Witness ==
    \E t \in Tasks :
        /\ body[t] # {}
        /\ health = "Unhealthy"
        /\ Len(node_services) = 2
        /\ services_poisoned

\* C7: when the status of the record with some id is updated from s1 to s2,
\* the per-service query for that id answers the code of s1 before the update
\* and the code of s2 after it, and answers for every other id as before.
C7_StatusUpdateIsVisible ==
    [][\A id \in StoredIds :
          LET s1 == StatusOf(node_services, id)
              s2 == StatusOf(node_services', id)
          IN  (s1 # "Absent" /\ s2 # "Absent" /\ s1 # s2) =>
                  /\ service_health_response(id) = StatusSignal(s1)
                  /\ service_health_response(id)' = StatusSignal(s2)
                  /\ \A other \in PathIds \ {id} :
                         service_health_response(other)' = service_health_response(other)
      ]_vars

C7_Witness ==
    \E t, u \in Tasks :
        /\ pc[t] = "rg_written"
        /\ StatusOf(node_services, "svc1") = "Down"
        /\ pc[u] = "s_lock"
        /\ service_id[u] = "svc1"
        /\ since[u] = {"Up", "Down"}

\* C8: once a mutex is poisoned no query that reads its state computes a
\* status: each one faults; and a query faults only on a poisoned mutex,
\* every other query computing one of the statuses of its table.
C8_PoisonFaultsQueries ==
    /\ health_poisoned => HealthReaders = {}
    /\ services_poisoned => RegistryReaders = {}
    /\ \A t \in Tasks :
           /\ pc[t] = "h_fault" => (health_poisoned /\ response[t] = 0)
           /\ pc[t] = "s_fault" => (services_poisoned /\ response[t] = 0)
           /\ pc[t] = "h_drop" => response[t] \in {200, 206, 503}
           /\ pc[t] = "s_drop" => response[t] \in {200, 206, 503, 404}
           /\ (pc[t] = "responded" /\ body[t] # {}) => response[t] = 200

C8_Witness ==
    \E t, u \in Tasks :
        /\ pc[t] = "h_fault"
        /\ pc[u] = "s_fault"
        /\ health = "Unhealthy"
        /\ node_services # <<>>

\* C9: the store starts with health Healthy and an empty registry: before
\* any mutation the health query computes 200 and the per-service query
\* computes 404 for every identifier.
C9_FreshStore ==
    /\ last_set = "None" =>
           /\ health = "Healthy"
           /\ \A t \in Tasks : pc[t] = "h_drop" => response[t] = 200
    /\ ~registry_touched =>
           /\ node_services = <<>>
           /\ \A t \in Tasks : pc[t] = "s_drop" => response[t] = 404

C9_Witness ==
    \E t, u \in Tasks :
        /\ pc[t] = "h_drop"
        /\ response[t] = 200
        /\ last_set = "None"
        /\ pc[u] = "s_drop"
        /\ service_id[u] = "svc1"
        /\ response[u] = 404
        /\ ~registry_touched

\* C10: after any sequence of upsert_service and remove_service from the
\* empty registry no two records share an id.
C10_IdsAreUnique ==
    \A i, j \in DOMAIN node_services :
        i # j => node_services[i].id # node_services[j].id

C10_Witness ==
    \E t, u \in Tasks :
        /\ pc[t] = "rg_written"
        /\ Len(node_services) = 2
        /\ pc[u] = "s_lock"
        /\ service_id[u] = "svc2"
        /\ since[u] = {"Up", "Initializing"}

\* C11: when several records share an id, the per-service query answers
\* with the status of the first of them in registry order, whatever the
\* statuses of the later ones.
C11_FirstMatchWins ==
    \A t \in Tasks :
        pc[t] = "s_drop" =>
            \A i \in DOMAIN node_services :
                (/\ node_services[i].id = service_id[t]
                 /\ \A j \in 1..(i - 1) : node_services[j].id # service_id[t])
                    => response[t] = StatusSignal(node_services[i].status)

C11_Witness ==
    \E t \in Tasks :
        /\ pc[t] = "s_drop"
        /\ service_id[t] = "svc1"
        /\ Len(node_services) = 2
        /\ node_services[1].id = "svc1" /\ node_services[1].status = "Down"
        /\ node_services[2].id = "svc1" /\ node_services[2].status = "Up"
        /\ response[t] = 503

\* C12: with no holder panicking and a fair scheduler every query returns a
\* response, every accessor gives back the guard it took within its own
\* call, and some call under way can always step.
Waiting(t) == pc[t] \in {"h_lock", "s_lock"}
Holding(t) == health_holder = t \/ services_holder = t

QueryPcs == {"h_lock", "h_match", "h_drop", "s_lock", "s_match", "s_drop"}

HandlerStep(t) ==
    /\ pc'[t] # pc[t]
    /\ pc[t] \in QueryPcs \/ pc'[t] \in QueryPcs \/ pc'[t] = "responded"

C13_HandlersAreReadOnly ==
    [][\A t \in Tasks :
          HandlerStep(t) =>
              /\ avs_node_name' = avs_node_name
              /\ avs_node_sem_ver' = avs_node_sem_ver
              /\ health' = health
              /\ node_services' = node_services
      ]_vars

C13_Witness ==
    \E t \in Tasks :
        /\ pc[t] = "responded"
        /\ service_id[t] = "svc2"
        /\ response[t] = 206
        /\ Len(node_services) = 2
        /\ node_services[1].id = "svc1"
        /\ health = "PartiallyHealthy"

\* C14: the health query's answer is a function of the health value alone
\* and stays the same across any change of the registry; the per-service
\* query's answer is a function of the registry alone and stays the same
\* across any change of health; no step changes both.
C14_HealthAndServicesIndependent ==
    /\ [](/\ health_response = HealthSignal(health)
          /\ \A id \in PathIds :
                 service_health_response(id) = StatusSignal(StatusOf(node_services, id)))
    /\ [][/\ node_services' # node_services =>
                 (health' = health /\ health_response' = health_response)
          /\ health' # health =>
                 /\ node_services' = node_services
                 /\ \A id \in PathIds :
                        service_health_response(id)' = service_health_response(id)
         ]_vars

C14_Witness ==
    \E t, u \in Tasks :
        /\ pc[t] = "h_drop"
        /\ response[t] = 200
        /\ StatusOf(node_services, "svc1") = "Down"
        /\ pc[u] = "rg_written"

C16_MainNeverMutates ==
    /\ health = "Healthy"
    /\ node_services = <<>>
    /\ ~health_poisoned /\ ~services_poisoned
    /\ \A t \in Tasks :
           /\ pc[t] = "h_drop" => response[t] = 200
           /\ pc[t] = "s_drop" => response[t] = 404
           /\ pc[t] = "responded" =>
                  /\ response[t] \in {200, 404}
                  /\ service_id[t] # "" => response[t] = 404
           /\ pc[t] \notin {"h_fault", "s_fault", "panicked"}

C16_Witness ==
    \E t, u \in Tasks :
        /\ pc[t] = "responded"
        /\ body[t] = {}
        /\ response[t] = 200
        /\ pc[u] = "s_drop"
        /\ service_id[u] = "Svc1"
        /\ response[u] = 404

====
